---- MODULE Spec2Model ----
(***************************************************************************)
(* A model of pydantic_factories.factory.ModelFactory                      *)
(* (src/pydantic_factories/factory.py): the per-field resolution order of  *)
(* get_field_value, the per-field source selection of build, the Require / *)
(* Ignore rules of should_set_field_value, the persistence operations and  *)
(* the seeding of the process-wide random sources.                         *)
(*                                                                         *)
(* A model field is a record holding what the factory reads from a         *)
(* pydantic ModelField: name, alias, field_info.const, the default,        *)
(* whether it is optional, outer_type_, type_, sub_fields and, for a       *)
(* literal, its arguments.  Types are named by strings.                    *)
(***************************************************************************)
EXTENDS Integers, Sequences, FiniteSets, TLC

VARIABLES
    factory,        \* the factory class the calls are made on
    random_state,   \* state of pydantic_factories.utils.random
    faker_state,    \* state of Faker's shared generator
    last,           \* the last completed call: what it did and how it ended
    pending,        \* the coroutine suspended at its await, if any
    twin            \* the two runs compared for reproducibility (SpecSeed only)

vars == <<factory, random_state, faker_state, last, pending, twin>>

---------------------------------------------------------------------------
(* Bounds of the model *)

\* number of states of each random generator
RngMod == 4
\* number of distinct outcomes of a draw from the operating system's entropy
EntropyMod == 2
\* largest size passed to batch / create_batch_*
MaxBatch == 2
\* depth at which the interpreter stops nested build calls (RecursionError)
RecursionLimit == 3
\* number of seeds tried by seed_random
MaxSeed == 2

---------------------------------------------------------------------------
(* Values *)

NoneVal == [k |-> "None", v |-> 0]
Val(kind, n) == [k |-> kind, v |-> n]
CallerVal == Val("caller", 0)

---------------------------------------------------------------------------
(* Types *)

\* enum classes and list(enum)
EnumTypes == {"Colour"}
EnumMembers(t) == <<Val("Colour", 1), Val("Colour", 2), Val("Colour", 3)>>

\* dataclasses (is_dataclass) and pydantic models (is_pydantic_model)
Dataclasses == {"PointDC"}
PydanticModels == {"Person", "Fixed", "Shapes", "Mixed", "Parent", "Node", "Odd", "Named"}

\* the pydantic Constrained* base each constrained type derives from
ConstrainedBase ==
    [conint |-> "ConstrainedInt", confloat |-> "ConstrainedFloat",
     condecimal |-> "ConstrainedDecimal", constr |-> "ConstrainedStr",
     conbytes |-> "ConstrainedBytes", conlist |-> "ConstrainedList",
     conset |-> "ConstrainedSet"]

NoSub == <<>>

\* a ModelField as the factory reads it
Field(name, alias, const, default, optional, outer, inner, sub, args) ==
    [name |-> name, alias |-> alias, const |-> const, default |-> default,
     optional |-> optional, outer_type_ |-> outer, type_ |-> inner,
     sub_fields |-> sub, args |-> args]

\* a field of a plain type: outer_type_ = type_, no sub-fields
Plain(name, optional, t) ==
    Field(name, name, FALSE, NoneVal, optional, t, t, NoSub, <<>>)

IntItem == Plain("item", FALSE, "int")
OptIntItem == Plain("item", TRUE, "int")

\* Model name -> its fields, in declaration order (model.__fields__)
ModelFields ==
    [Person |-> << Plain("id", FALSE, "int"),
                   Field("nick", "nickname", FALSE, NoneVal, TRUE, "str", "str", NoSub, <<>>),
                   Plain("uid", FALSE, "UUID") >>,
     Fixed  |-> << Field("version", "version", TRUE, Val("int", 7), FALSE, "int", "int", NoSub, <<>>),
                   Field("note", "note", TRUE, NoneVal, TRUE, "str", "str", NoSub, <<>>),
                   Field("mode", "mode", TRUE, Val("Colour", 2), TRUE, "Colour", "Colour", NoSub, <<>>) >>,
     Shapes |-> << Plain("colour", TRUE, "Colour"),
                   Field("tags", "tags", FALSE, NoneVal, FALSE, "conlist", "int", <<IntItem>>, <<>>),
                   Field("kind", "kind", FALSE, NoneVal, TRUE, "Literal", "Literal", NoSub,
                         <<Val("str", 1), Val("str", 2)>>) >>,
     Mixed  |-> << Plain("age", TRUE, "conint"),
                   Field("items", "items", FALSE, NoneVal, FALSE, "List", "int", <<OptIntItem>>, <<>>),
                   Plain("origin", FALSE, "PointDC") >>,
     Parent |-> << Plain("child", FALSE, "Person"),
                   Plain("spare", TRUE, "Fixed") >>,
     Node   |-> << Plain("value", FALSE, "bytes"),
                   Plain("next", TRUE, "Node") >>,
     Odd    |-> << Field("cb", "cb", FALSE, NoneVal, FALSE, "Callable", "Any", NoSub, <<>>),
                   Plain("z", TRUE, "complex"),
                   Plain("nothing", TRUE, "None") >>,
     Named  |-> << Plain("build", FALSE, "int"),
                   Plain("batch", TRUE, "int") >>,
     PointDC |-> << Plain("x", FALSE, "int"),
                    Plain("y", TRUE, "NegativeFloat") >> ]

---------------------------------------------------------------------------
(* The random sources.  random (pydantic_factories.utils) and Faker's      *)
(* generator are deterministic generators: a draw returns a function of    *)
(* the state and advances it.  uuid1 / uuid4 read the clock and the        *)
(* operating system's entropy instead; rs.os stands for what they return.  *)
(* rs.n counts the draws of the current call.                              *)

Advance(s) == (s + 1) % RngMod
Bit(s) == ((s \div 2) % 2) = 1

DrawRandom(rs) == [rs EXCEPT !.random = Advance(rs.random), !.n = rs.n + 1]
DrawFaker(rs) == [rs EXCEPT !.faker = Advance(rs.faker), !.n = rs.n + 1]
DrawEntropy(rs) == [rs EXCEPT !.os = (rs.os + 1) % EntropyMod, !.n = rs.n + 1]

\* random.seed(seed); Faker.seed(seed)
Seeded(seed) == [random |-> seed % RngMod, faker |-> seed % RngMod]

---------------------------------------------------------------------------
(* Results of the modelled methods: a returned value or a raised error,    *)
(* the random sources afterwards, and the log of what was done.            *)

Ok(val, rs, log) ==
    [ok |-> TRUE, err |-> "", val |-> val, rs |-> rs, log |-> log, branch |-> ""]
Raise(err, rs, log) ==
    [ok |-> FALSE, err |-> err, val |-> NoneVal, rs |-> rs, log |-> log, branch |-> ""]

NoKw == [n \in {} |-> NoneVal]

---------------------------------------------------------------------------
(* Factory classes *)

\* names every ModelFactory subclass inherits (hasattr is true of them);
\* pydantic field names cannot start with an underscore
ModelFactoryAttrs ==
    {"seed_random", "is_model_factory", "is_constrained_field", "is_ignored_type",
     "get_provider_map", "get_mock_value", "handle_constrained_field", "handle_enum",
     "handle_factory_field", "create_factory", "get_field_value",
     "should_set_none_value", "should_set_field_value", "get_model_fields",
     "build", "batch", "create_sync", "create_batch_sync", "create_async",
     "create_batch_async"}

\* the inherited methods that cannot be called without arguments
MethodsWithRequiredArgs ==
    ModelFactoryAttrs \ {"build", "create_sync", "create_async", "get_provider_map"}

Attr(kind) == [kind |-> kind]
NoAttrs == [n \in {} |-> Attr("value")]

\* a factory class: __model__, the attributes its body declares,
\* __allow_none_optionals__, __sync_persistence__, __async_persistence__
Factory(model, attrs, allow, sync, async) ==
    [model |-> model, attrs |-> attrs, allow_none_optionals |-> allow,
     sync_persistence |-> sync, async_persistence |-> async]

hasattr(cls, name) == name \in DOMAIN cls.attrs \/ name \in ModelFactoryAttrs

getattr(cls, name) ==
    IF name \in DOMAIN cls.attrs THEN cls.attrs[name]
    ELSE [kind |-> "method", name |-> name]

is_model_factory(value) == value.kind = "Factory"

callable(value) == value.kind \in {"callable", "method", "Factory"}

is_pydantic_model(t) == t \in PydanticModels
is_dataclass(t) == t \in Dataclasses
isinstance_EnumMeta(t) == t \in EnumTypes

is_constrained_field(value) == value \in DOMAIN ConstrainedBase

is_ignored_type(value) == value = "None"

is_optional(model_field) == model_field.optional

is_literal(model_field) == model_field.outer_type_ = "Literal"

_get_model(cls) ==
    IF cls.model = "" THEN [ok |-> FALSE, err |-> "ConfigurationError"]
    ELSE [ok |-> TRUE, err |-> "", model |-> cls.model]

get_model_fields(model) == ModelFields[model]

create_factory(cls, model) ==
    Factory(model, NoAttrs, cls.allow_none_optionals,
            cls.sync_persistence, cls.async_persistence)

---------------------------------------------------------------------------
(* The provider map: type -> the generator behind its handler *)

FakerTypes ==
    {"float", "int", "bool", "str", "dict", "tuple", "list", "set", "frozenset",
     "deque", "Decimal", "datetime", "date", "time", "timedelta", "IPv4Address",
     "IPv4Interface", "IPv4Network", "IPv6Address", "IPv6Interface", "IPv6Network",
     "ByteSize", "PositiveInt", "NegativeInt", "PositiveFloat", "NonNegativeInt",
     "StrictInt", "StrictBool", "StrictFloat", "StrictStr", "EmailStr", "NameEmail",
     "Color", "Json", "PaymentCardNumber", "AnyUrl", "AnyHttpUrl", "HttpUrl",
     "UUID3", "UUID5", "SecretStr", "IPvAnyAddress", "IPvAnyInterface",
     "IPvAnyNetwork", "PastDate", "FutureDate", "Counter"}
RandomTypes == {"bytes", "StrictBytes", "SecretBytes", "NegativeFloat", "NonPositiveFloat"}
FixedTypes ==
    {"object", "Path", "FilePath", "DirectoryPath", "Callable", "PyObject",
     "PostgresDsn", "RedisDsn", "AmqpDsn", "KafkaDsn"}
EntropyTypes == {"UUID", "UUID1", "UUID4"}

get_provider_map ==
    [t \in FakerTypes \cup RandomTypes \cup FixedTypes \cup EntropyTypes |->
        IF t \in FakerTypes THEN "faker"
        ELSE IF t \in RandomTypes THEN "random"
        ELSE IF t \in EntropyTypes THEN "entropy"
        ELSE "fixed"]

\* handler(): the value a provider returns and the source it consumes
CallHandler(handler, field_type, rs) ==
    IF handler = "faker" THEN Ok(Val(field_type, rs.faker), DrawFaker(rs), <<>>)
    ELSE IF handler = "random" THEN Ok(Val(field_type, rs.random), DrawRandom(rs), <<>>)
    ELSE IF handler = "entropy" THEN Ok(Val(field_type, rs.os), DrawEntropy(rs), <<>>)
    ELSE Ok(Val(field_type, 0), rs, <<>>)

get_mock_value_none(field_type, rs) ==
    IF field_type \in DOMAIN get_provider_map
    THEN CallHandler(get_provider_map[field_type], field_type, rs)
    ELSE Ok(NoneVal, rs, <<>>)

get_mock_value(field_type, rs) ==
    IF field_type \in DOMAIN get_provider_map
    THEN CallHandler(get_provider_map[field_type], field_type, rs)
    ELSE Raise("ParameterError", rs, <<>>)

\* random.choice(list(outer_type))
handle_enum(outer_type, rs) ==
    LET members == EnumMembers(outer_type)
    IN  Ok(members[(rs.random % Len(members)) + 1], DrawRandom(rs), <<>>)

\* create_random_boolean(): a draw from random
create_random_boolean(rs) == [value |-> Bit(rs.random), rs |-> DrawRandom(rs)]

should_set_none_value_always(cls, model_field, rs) ==
    IF is_optional(model_field)
    THEN LET b == create_random_boolean(rs) IN [set |-> ~b.value, rs |-> b.rs]
    ELSE [set |-> FALSE, rs |-> rs]

should_set_none_value(cls, model_field, rs) ==
    IF cls.allow_none_optionals
    THEN IF is_optional(model_field)
         THEN LET b == create_random_boolean(rs) IN [set |-> ~b.value, rs |-> b.rs]
         ELSE [set |-> FALSE, rs |-> rs]
    ELSE [set |-> FALSE, rs |-> rs]

should_set_field_value_no_require(cls, field_name, kwargs) ==
    LET is_field_in_kwargs == field_name \in DOMAIN kwargs
        is_field_ignored == hasattr(cls, field_name)
                            /\ getattr(cls, field_name).kind = "Ignore"
    IN  [raise |-> FALSE, set |-> ~is_field_ignored /\ ~is_field_in_kwargs]

should_set_field_value_no_ignore(cls, field_name, kwargs) ==
    LET is_field_in_kwargs == field_name \in DOMAIN kwargs
    IN  IF hasattr(cls, field_name)
           /\ getattr(cls, field_name).kind = "Require" /\ ~is_field_in_kwargs
        THEN [raise |-> TRUE, set |-> FALSE]
        ELSE [raise |-> FALSE, set |-> ~is_field_in_kwargs]

should_set_field_value(cls, field_name, kwargs) ==
    LET is_field_in_kwargs == field_name \in DOMAIN kwargs
    IN  IF hasattr(cls, field_name)
           /\ getattr(cls, field_name).kind = "Require" /\ ~is_field_in_kwargs
        THEN [raise |-> TRUE, set |-> FALSE]
        ELSE LET is_field_ignored == hasattr(cls, field_name)
                                     /\ getattr(cls, field_name).kind = "Ignore"
             IN  [raise |-> FALSE, set |-> ~is_field_ignored /\ ~is_field_in_kwargs]

---------------------------------------------------------------------------
(* Field resolution and build.  depth is the nesting of build calls.  A    *)
(* method that works on the result of a call it makes is written as the    *)
(* call followed by an operator taking that result.                        *)

RECURSIVE get_field_value(_, _, _, _)
RECURSIVE resolve_sub_fields(_, _, _, _, _, _, _)
RECURSIVE build_fields(_, _, _, _, _, _, _)
RECURSIVE build(_, _, _, _, _)
RECURSIVE batch_from(_, _, _, _, _, _, _)

\* what one get_field_value call did: the branch it took and its outcome
Resolved(cls, model_field, branch, rs, r, depth) ==
    [r EXCEPT !.branch = branch,
              !.log = r.log \o
                  << [ev |-> "resolve", model |-> cls.model,
                      allow |-> cls.allow_none_optionals, field |-> model_field,
                      branch |-> branch, ok |-> r.ok, err |-> r.err, val |-> r.val,
                      random_before |-> rs.random, draws |-> r.rs.n - rs.n,
                      depth |-> depth] >>]

\* a container of type outer holding the items of result r
Wrapped(outer, r) ==
    IF r.ok THEN Ok([k |-> outer, v |-> 0, items |-> r.val.items], r.rs, r.log)
    ELSE r

\* sub-fields i.. of a composite field, each resolved by get_field_value
SubFieldResolved(cls, sub_fields, i, items, log, depth, item) ==
    IF ~item.ok THEN Raise(item.err, item.rs, log \o item.log)
    ELSE resolve_sub_fields(cls, sub_fields, i + 1, Append(items, item.val), item.rs,
                            log \o item.log, depth)

resolve_sub_fields(cls, sub_fields, i, items, rs, log, depth) ==
    IF i > Len(sub_fields) THEN Ok([k |-> "items", v |-> 0, items |-> items], rs, log)
    ELSE SubFieldResolved(cls, sub_fields, i, items, log, depth,
                          get_field_value(cls, sub_fields[i], rs, depth))

\* the items of a constrained list / set come from the factory's
\* get_field_value on the item field
handle_constrained_collection(cls, model_field, rs, depth) ==
    Wrapped(model_field.outer_type_,
            resolve_sub_fields(cls, model_field.sub_fields, 1, <<>>, rs, <<>>, depth))

handle_constrained_field(cls, model_field, rs, depth) ==
    LET outer_type == model_field.outer_type_
        base == ConstrainedBase[outer_type]
    IN  IF base \in {"ConstrainedFloat", "ConstrainedInt", "ConstrainedDecimal",
                     "ConstrainedStr", "ConstrainedBytes"}
        THEN Ok(Val(outer_type, rs.random), DrawRandom(rs), <<>>)
        ELSE IF base \in {"ConstrainedSet", "ConstrainedList"}
        THEN handle_constrained_collection(cls, model_field, rs, depth)
        ELSE Raise("ParameterError", rs, <<>>)

handle_complex_type(cls, model_field, rs, depth) ==
    Wrapped(model_field.outer_type_,
            resolve_sub_fields(cls, model_field.sub_fields, 1, <<>>, rs, <<>>, depth))

\* the decision chain of get_field_value: the branch taken, and the random
\* sources after the boolean draw of should_set_none_value (if it drew)
ResolutionBranch_sub_fields_first(cls, model_field, rs) ==
    IF model_field.const THEN [branch |-> "const", rs |-> rs]
    ELSE
    LET none == should_set_none_value(cls, model_field, rs)
        outer_type == model_field.outer_type_
        field_type == IF model_field.type_ # "Any" THEN model_field.type_ ELSE outer_type
    IN  [rs |-> none.rs,
         branch |->
            IF none.set THEN "none"
            ELSE IF isinstance_EnumMeta(outer_type) THEN "enum"
            ELSE IF is_pydantic_model(outer_type) \/ is_dataclass(outer_type) THEN "nested"
            ELSE IF model_field.sub_fields # NoSub THEN "complex"
            ELSE IF is_constrained_field(outer_type) THEN "constrained"
            ELSE IF is_literal(model_field) THEN "literal"
            ELSE IF is_ignored_type(field_type) THEN "ignored"
            ELSE "provider"]

ResolutionBranch(cls, model_field, rs) ==
    IF model_field.const THEN [branch |-> "const", rs |-> rs]
    ELSE
    LET none == should_set_none_value(cls, model_field, rs)
        outer_type == model_field.outer_type_
        field_type == IF model_field.type_ # "Any" THEN model_field.type_ ELSE outer_type
    IN  [rs |-> none.rs,
         branch |->
            IF none.set THEN "none"
            ELSE IF isinstance_EnumMeta(outer_type) THEN "enum"
            ELSE IF is_pydantic_model(outer_type) \/ is_dataclass(outer_type) THEN "nested"
            ELSE IF is_constrained_field(outer_type) THEN "constrained"
            ELSE IF model_field.sub_fields # NoSub THEN "complex"
            ELSE IF is_literal(model_field) THEN "literal"
            ELSE IF is_ignored_type(field_type) THEN "ignored"
            ELSE "provider"]

\* what the branch taken returns
BranchValue(cls, model_field, d, depth) ==
    LET outer_type == model_field.outer_type_
        field_type == IF model_field.type_ # "Any" THEN model_field.type_ ELSE outer_type
    IN  CASE d.branch = "const" -> Ok(model_field.default, d.rs, <<>>)
          [] d.branch = "none" -> Ok(NoneVal, d.rs, <<>>)
          [] d.branch = "enum" -> handle_enum(outer_type, d.rs)
          [] d.branch = "nested" ->
                 build(create_factory(cls, outer_type), FALSE, NoKw, d.rs, depth + 1)
          [] d.branch = "constrained" ->
                 handle_constrained_field(cls, model_field, d.rs, depth)
          [] d.branch = "complex" -> handle_complex_type(cls, model_field, d.rs, depth)
          [] d.branch = "literal" -> Ok(model_field.args[1], d.rs, <<>>)
          [] d.branch = "ignored" -> Ok(NoneVal, d.rs, <<>>)
          [] OTHER -> get_mock_value(field_type, d.rs)

FieldValue(cls, model_field, rs, d, depth) ==
    Resolved(cls, model_field, d.branch, rs, BranchValue(cls, model_field, d, depth), depth)

get_field_value(cls, model_field, rs, depth) ==
    FieldValue(cls, model_field, rs, ResolutionBranch(cls, model_field, rs), depth)

\* value(): what calling a callable attribute of the factory comes to.  A
\* factory class and the inherited build / create_sync end in a build call.
CalledBuild(cls, value) ==
    IF is_model_factory(value) THEN [build |-> TRUE, cls |-> value.factory, err |-> ""]
    ELSE IF value.kind = "callable" THEN [build |-> FALSE, err |-> ""]
    ELSE IF value.name \in MethodsWithRequiredArgs THEN [build |-> FALSE, err |-> "TypeError"]
    ELSE IF value.name = "build" THEN [build |-> TRUE, cls |-> cls, err |-> ""]
    ELSE IF value.name = "create_sync"
    THEN IF cls.sync_persistence = "none"
         THEN [build |-> FALSE, err |-> "ConfigurationError"]
         ELSE [build |-> TRUE, cls |-> cls, err |-> ""]
    ELSE [build |-> FALSE, err |-> ""]

handle_factory_field(cls, field_name, rs, depth) ==
    LET value == getattr(cls, field_name)
        c == CalledBuild(cls, value)
    IN  IF value.kind = "Use" THEN Ok(Val("use", 0), rs, <<>>)
        ELSE IF is_model_factory(value) \/ callable(value)
        THEN IF c.build THEN build(c.cls, FALSE, NoKw, rs, depth + 1)
             ELSE IF c.err # "" THEN Raise(c.err, rs, <<>>)
             ELSE Ok(Val("called", 0), rs, <<>>)
        ELSE Ok(Val("attribute", 0), rs, <<>>)

\* where the value of one field of a build comes from
Source(cls, model_field, field_name, via, depth) ==
    [ev |-> "source", model |-> cls.model, name |-> model_field.name,
     key |-> field_name, via |-> via, declared |-> field_name \in DOMAIN cls.attrs,
     depth |-> depth]

\* the key build uses for a field
FieldName(model_field) ==
    IF model_field.alias # "" THEN model_field.alias ELSE model_field.name

\* the body of build's loop for field i, when should_set_field_value said s
FieldSource(cls, model_field, kwargs, s) ==
    IF s.set
    THEN IF hasattr(cls, FieldName(model_field))
         THEN "handle_factory_field" ELSE "get_field_value"
    ELSE IF FieldName(model_field) \in DOMAIN kwargs THEN "kwarg" ELSE "omitted"

FieldSet(cls, model_field, kwargs, rs, depth, via) ==
    IF via = "handle_factory_field"
    THEN handle_factory_field(cls, FieldName(model_field), rs, depth)
    ELSE IF via = "get_field_value" THEN get_field_value(cls, model_field, rs, depth)
    ELSE Ok(NoneVal, rs, <<>>)

FieldDone(cls, fields, i, kwargs, log, depth, via, r) ==
    IF ~r.ok
    THEN [ok |-> FALSE, err |-> r.err, kwargs |-> kwargs, rs |-> r.rs,
          log |-> log \o <<Source(cls, fields[i], FieldName(fields[i]), via, depth)>>
                      \o r.log]
    ELSE build_fields(cls, fields, i + 1,
                      IF via \in {"handle_factory_field", "get_field_value"}
                      THEN (FieldName(fields[i]) :> r.val) @@ kwargs ELSE kwargs,
                      r.rs,
                      log \o <<Source(cls, fields[i], FieldName(fields[i]), via, depth)>>
                          \o r.log,
                      depth)

FieldStep(cls, fields, i, kwargs, rs, log, depth, s) ==
    IF s.raise
    THEN [ok |-> FALSE, err |-> "MissingBuildKwargError", kwargs |-> kwargs,
          rs |-> rs, log |-> log]
    ELSE FieldDone(cls, fields, i, kwargs, log, depth,
                   FieldSource(cls, fields[i], kwargs, s),
                   FieldSet(cls, fields[i], kwargs, rs, depth,
                            FieldSource(cls, fields[i], kwargs, s)))

\* the loop of build over the model's fields, from field i on
build_fields(cls, fields, i, kwargs, rs, log, depth) ==
    IF i > Len(fields)
    THEN [ok |-> TRUE, err |-> "", kwargs |-> kwargs, rs |-> rs, log |-> log]
    ELSE FieldStep(cls, fields, i, kwargs, rs, log, depth,
                   should_set_field_value(cls, FieldName(fields[i]), kwargs))

\* the end of build: the model is constructed from the assembled keywords f
Constructed(cls, factory_use_construct, depth, f) ==
    IF ~f.ok THEN Raise(f.err, f.rs, f.log)
    ELSE IF factory_use_construct /\ ~is_pydantic_model(cls.model)
    THEN Raise("ConfigurationError", f.rs, f.log)
    ELSE Ok([k |-> "instance", v |-> 0, model |-> cls.model, fields |-> f.kwargs],
            f.rs,
            Append(f.log, [ev |-> "construct", model |-> cls.model,
                           keys |-> DOMAIN f.kwargs,
                           val |-> [k |-> "instance", v |-> 0, model |-> cls.model,
                                    fields |-> f.kwargs],
                           validate |-> ~factory_use_construct,
                           depth |-> depth]))

build(cls, factory_use_construct, kwargs, rs, depth) ==
    IF depth > RecursionLimit THEN Raise("RecursionError", rs, <<>>)
    ELSE IF ~_get_model(cls).ok THEN Raise(_get_model(cls).err, rs, <<>>)
    ELSE Constructed(cls, factory_use_construct, depth,
                     build_fields(cls, get_model_fields(_get_model(cls).model), 1,
                                  kwargs, rs, <<>>, depth))

\* [cls.build(**kwargs) for _ in range(size)], from build i on
Built(cls, size, i, kwargs, data, log, r) ==
    IF ~r.ok THEN Raise(r.err, r.rs, log \o r.log)
    ELSE batch_from(cls, size, i + 1, kwargs, r.rs, Append(data, r.val), log \o r.log)

batch_from(cls, size, i, kwargs, rs, data, log) ==
    IF i > size THEN Ok([k |-> "list", v |-> 0, items |-> data], rs, log)
    ELSE Built(cls, size, i, kwargs, data, log, build(cls, FALSE, kwargs, rs, 0))

batch(cls, size, kwargs, rs) == batch_from(cls, size, 1, kwargs, rs, <<>>, <<>>)

---------------------------------------------------------------------------
(* Persistence.  A strategy is configured as nothing, a ready instance or  *)
(* a class that is called to make the handler.                             *)

GetPersistence(persistence, which) ==
    IF persistence # "none"
    THEN [ok |-> TRUE, err |-> "",
          log |-> IF persistence = "class"
                  THEN <<[ev |-> "instantiate", which |-> which]>> ELSE <<>>]
    ELSE [ok |-> FALSE, err |-> "ConfigurationError", log |-> <<>>]

\* _get_sync_persistence without the "if persistence:" test
_get_sync_persistence_unchecked(cls) ==
    [ok |-> TRUE, err |-> "",
     log |-> IF cls.sync_persistence = "class"
             THEN <<[ev |-> "instantiate", which |-> "sync"]>> ELSE <<>>]

_get_sync_persistence(cls) == GetPersistence(cls.sync_persistence, "sync")

_get_async_persistence(cls) == GetPersistence(cls.async_persistence, "async")

\* what the strategy's save / save_many hands back for data
Saved(method, data) == [k |-> "saved", v |-> 0, by |-> method, data |-> data]
SaveEvent(method, data) == [ev |-> method, data |-> data]

---------------------------------------------------------------------------
(* Calls *)

Call(op, size, kwargs, outcome, err, val, log, awaited) ==
    [op |-> op, size |-> size, kwargs |-> DOMAIN kwargs, outcome |-> outcome,
     err |-> err, val |-> val, log |-> log, awaited |-> awaited]

Returned(op, size, kwargs, val, log, awaited) ==
    Call(op, size, kwargs, "returned", "", val, log, awaited)
Raised(op, size, kwargs, err, log, awaited) ==
    Call(op, size, kwargs, "raised", err, NoneVal, log, awaited)

\* a call that ended, and the random sources it leaves
Ended(call, rs) == [call |-> call, rs |-> rs, suspended |-> FALSE]
\* a coroutine suspended at "await handler.<method>(data = data)"
Suspended(op, size, kwargs, method, data, log, rs) ==
    [suspended |-> TRUE, rs |-> rs,
     await |-> [op |-> op, size |-> size, kwargs |-> kwargs, method |-> method,
                data |-> data, log |-> log]]

\* build / batch as a call: r is what it returned or raised
Plain_call(op, size, kwargs, r) ==
    Ended(IF r.ok THEN Returned(op, size, kwargs, r.val, r.log, <<>>)
          ELSE Raised(op, size, kwargs, r.err, r.log, <<>>), r.rs)

\* handler.save(data = ...) / handler.save_many(data = ...): the strategy
\* returns (saved) or raises, and the create_* method returns or raises that
Persist(op, size, kwargs, method, data, log, saved, awaited) ==
    IF saved
    THEN Returned(op, size, kwargs, Saved(method, data),
                  Append(log, SaveEvent(method, data)), awaited)
    ELSE Raised(op, size, kwargs, "PersistenceError",
                Append(log, SaveEvent(method, data)), awaited)

\* create_sync / create_batch_sync that save and then return what was built
\* instead of what save / save_many returned
SyncSave_returns_built(op, size, kwargs, method, handler, r, saved) ==
    IF ~r.ok THEN Ended(Raised(op, size, kwargs, r.err, handler.log \o r.log, <<>>), r.rs)
    ELSE IF saved
    THEN Ended(Returned(op, size, kwargs, r.val,
                        Append(handler.log \o r.log, SaveEvent(method, r.val)), <<>>), r.rs)
    ELSE Ended(Persist(op, size, kwargs, method, r.val, handler.log \o r.log, saved, <<>>),
               r.rs)

\* the rest of create_sync / create_batch_sync once the data is built
SyncSave(op, size, kwargs, method, handler, r, saved) ==
    IF ~r.ok THEN Ended(Raised(op, size, kwargs, r.err, handler.log \o r.log, <<>>), r.rs)
    ELSE Ended(Persist(op, size, kwargs, method, r.val, handler.log \o r.log, saved, <<>>),
               r.rs)

\* the rest of create_async / create_batch_async up to the await
AsyncSave(op, size, kwargs, method, handler, r) ==
    IF ~r.ok THEN Ended(Raised(op, size, kwargs, r.err, handler.log \o r.log, <<>>), r.rs)
    ELSE Suspended(op, size, kwargs, method, r.val, handler.log \o r.log, r.rs)

NotConfigured(op, size, kwargs, handler, rs) ==
    Ended(Raised(op, size, kwargs, handler.err, handler.log, <<>>), rs)

create_sync(cls, kwargs, rs, saved) ==
    IF ~_get_sync_persistence(cls).ok
    THEN NotConfigured("create_sync", 1, kwargs, _get_sync_persistence(cls), rs)
    ELSE SyncSave("create_sync", 1, kwargs, "save", _get_sync_persistence(cls),
                  build(cls, FALSE, kwargs, rs, 0), saved)

create_batch_sync(cls, size, kwargs, rs, saved) ==
    IF ~_get_sync_persistence(cls).ok
    THEN NotConfigured("create_batch_sync", size, kwargs, _get_sync_persistence(cls), rs)
    ELSE SyncSave("create_batch_sync", size, kwargs, "save_many",
                  _get_sync_persistence(cls), batch(cls, size, kwargs, rs), saved)

create_async(cls, kwargs, rs) ==
    IF ~_get_async_persistence(cls).ok
    THEN NotConfigured("create_async", 1, kwargs, _get_async_persistence(cls), rs)
    ELSE AsyncSave("create_async", 1, kwargs, "save", _get_async_persistence(cls),
                   build(cls, FALSE, kwargs, rs, 0))

create_batch_async(cls, size, kwargs, rs) ==
    IF ~_get_async_persistence(cls).ok
    THEN NotConfigured("create_batch_async", size, kwargs, _get_async_persistence(cls), rs)
    ELSE AsyncSave("create_batch_async", size, kwargs, "save_many",
                   _get_async_persistence(cls), batch(cls, size, kwargs, rs))

---------------------------------------------------------------------------
(* State *)

NoCall == [op |-> "none"]
NoPending == [op |-> "none"]
NoTwin == [seed |-> 0]

\* the random sources as a call finds them; os is what the operating
\* system's entropy yields during the call
Sources(os) == [random |-> random_state, faker |-> faker_state, os |-> os, n |-> 0]

\* the keys of the factory's model
FieldKeys(cls) ==
    IF cls.model = "" THEN {}
    ELSE {ModelFields[cls.model][i].alias : i \in 1..Len(ModelFields[cls.model])}

\* the keyword sets a caller passes
Kwargs(cls) == {[n \in K |-> CallerVal] : K \in SUBSET FieldKeys(cls)}

Entropy == 0..(EntropyMod - 1)

P(name, kind) == name :> Attr(kind)

PersonFactory == Factory("Person", NoAttrs, TRUE, "none", "none")

\* the factory classes tried, each for both settings of __allow_none_optionals__
Factories(allow) ==
    {Factory("", NoAttrs, allow, "none", "none"),
     Factory("Person", NoAttrs, allow, "instance", "class"),
     Factory("Fixed", NoAttrs, allow, "none", "instance"),
     Factory("Shapes", NoAttrs, allow, "class", "none"),
     Factory("Mixed", NoAttrs, allow, "instance", "none"),
     Factory("Parent", NoAttrs, allow, "class", "class"),
     Factory("Node", NoAttrs, allow, "none", "class"),
     Factory("Odd", NoAttrs, allow, "class", "instance"),
     Factory("Named", NoAttrs, allow, "instance", "instance"),
     Factory("PointDC", NoAttrs, allow, "none", "none"),
     Factory("Person", P("id", "Require") @@ P("nickname", "Ignore"),
             allow, "class", "none"),
     Factory("Person", P("uid", "Require") @@ P("id", "Use") @@ P("nickname", "callable"),
             allow, "none", "instance"),
     Factory("Person", P("uid", "Ignore") @@ P("id", "value"), allow, "instance", "class"),
     Factory("Parent", ("child" :> [kind |-> "Factory", factory |-> PersonFactory])
                       @@ P("spare", "Ignore"), allow, "none", "none"),
     Factory("Odd", P("nothing", "Require"), allow, "instance", "class"),
     Factory("Odd", P("cb", "Require") @@ P("z", "Ignore"), allow, "class", "instance"),
     Factory("Named", P("build", "Use") @@ P("batch", "Ignore"), allow, "none", "none")}

Init ==
    /\ \E allow \in BOOLEAN : factory \in Factories(allow)
    /\ random_state \in 0..(RngMod - 1)
    /\ faker_state \in 0..(RngMod - 1)
    /\ last = NoCall
    /\ pending = NoPending
    /\ twin = NoTwin

\* the state after a call that ended or suspended
After(r) ==
    /\ random_state' = r.rs.random
    /\ faker_state' = r.rs.faker
    /\ IF r.suspended
       THEN pending' = r.await /\ last' = [op |-> r.await.op, outcome |-> "suspended"]
       ELSE last' = r.call /\ UNCHANGED pending
    /\ UNCHANGED <<factory, twin>>

---------------------------------------------------------------------------
(* Operations.  Calls are made one at a time: a call leaves its outcome in *)
(* last, and the caller takes it before making the next call.              *)

Idle == last = NoCall /\ pending = NoPending

SeedRandom(seed) ==
    /\ Idle
    /\ random_state' = Seeded(seed).random
    /\ faker_state' = Seeded(seed).faker
    /\ last' = [op |-> "seed_random", seed |-> seed]
    /\ UNCHANGED <<factory, pending, twin>>

Build(factory_use_construct, kwargs, os) ==
    /\ Idle
    /\ After(Plain_call("build", 1, kwargs,
                        build(factory, factory_use_construct, kwargs, Sources(os), 0)))

Batch(size, kwargs, os) ==
    /\ Idle
    /\ After(Plain_call("batch", size, kwargs, batch(factory, size, kwargs, Sources(os))))

CreateSync(kwargs, os, saved) ==
    /\ Idle
    /\ After(create_sync(factory, kwargs, Sources(os), saved))

CreateBatchSync(size, kwargs, os, saved) ==
    /\ Idle
    /\ After(create_batch_sync(factory, size, kwargs, Sources(os), saved))

CreateAsync(kwargs, os) ==
    /\ Idle
    /\ After(create_async(factory, kwargs, Sources(os)))

CreateBatchAsync(size, kwargs, os) ==
    /\ Idle
    /\ After(create_batch_async(factory, size, kwargs, Sources(os)))

\* the awaited save / save_many completes and the coroutine resumes
Resume(saved) ==
    /\ pending # NoPending
    /\ last' = Persist(pending.op, pending.size, pending.kwargs, pending.method,
                       pending.data, pending.log, saved, <<pending.method>>)
    /\ pending' = NoPending
    /\ UNCHANGED <<factory, random_state, faker_state, twin>>

\* the caller takes the outcome of the last call
TakeResult ==
    /\ pending = NoPending
    /\ last # NoCall
    /\ last' = NoCall
    /\ UNCHANGED <<factory, random_state, faker_state, pending, twin>>

Next ==
    \/ TakeResult
    \/ \E seed \in 0..(MaxSeed - 1) : SeedRandom(seed)
    \/ \E c \in BOOLEAN, kwargs \in Kwargs(factory), os \in Entropy : Build(c, kwargs, os)
    \/ \E size \in 0..MaxBatch, kwargs \in Kwargs(factory), os \in Entropy :
           Batch(size, kwargs, os)
    \/ \E kwargs \in Kwargs(factory), os \in Entropy, saved \in BOOLEAN :
           CreateSync(kwargs, os, saved)
    \/ \E size \in 0..MaxBatch, kwargs \in Kwargs(factory), os \in Entropy, saved \in BOOLEAN :
           CreateBatchSync(size, kwargs, os, saved)
    \/ \E kwargs \in Kwargs(factory), os \in Entropy : CreateAsync(kwargs, os)
    \/ \E size \in 0..MaxBatch, kwargs \in Kwargs(factory), os \in Entropy :
           CreateBatchAsync(size, kwargs, os)
    \/ \E saved \in BOOLEAN : Resume(saved)

Spec == Init /\ [][Next]_vars

---------------------------------------------------------------------------
(* Two runs of the same program: both call seed_random(seed) and then make *)
(* the same build calls.  What the operating system's entropy yields in    *)
(* one run is independent of what it yields in the other.                  *)

Outcome(r) == [ok |-> r.ok, err |-> r.err, val |-> r.val]
RunSources(run, os) == [random |-> run.random, faker |-> run.faker, os |-> os, n |-> 0]
RunAfter(r) == [random |-> r.rs.random, faker |-> r.rs.faker]

InitSeed ==
    /\ \E allow \in BOOLEAN : factory \in Factories(allow)
    /\ random_state = 0
    /\ faker_state = 0
    /\ last = NoCall
    /\ pending = NoPending
    /\ \E seed \in 0..(MaxSeed - 1) :
           twin = [seed |-> seed, a |-> Seeded(seed), b |-> Seeded(seed),
                   kwargs |-> {}, out_a |-> Outcome(Ok(NoneVal, 0, <<>>)),
                   out_b |-> Outcome(Ok(NoneVal, 0, <<>>))]

TwinBuilt(kwargs, ra, rb) ==
    /\ twin' = [twin EXCEPT !.a = RunAfter(ra), !.b = RunAfter(rb),
                            !.kwargs = DOMAIN kwargs,
                            !.out_a = Outcome(ra), !.out_b = Outcome(rb)]
    /\ UNCHANGED <<factory, random_state, faker_state, last, pending>>

TwinSeedRandom(seed) ==
    /\ twin' = [twin EXCEPT !.seed = seed, !.a = Seeded(seed), !.b = Seeded(seed)]
    /\ UNCHANGED <<factory, random_state, faker_state, last, pending>>

TwinBuild(kwargs, os_a, os_b) ==
    TwinBuilt(kwargs,
              build(factory, FALSE, kwargs, RunSources(twin.a, os_a), 0),
              build(factory, FALSE, kwargs, RunSources(twin.b, os_b), 0))

NextSeed ==
    \/ \E seed \in 0..(MaxSeed - 1) : TwinSeedRandom(seed)
    \/ \E kwargs \in Kwargs(factory), os_a \in Entropy, os_b \in Entropy :
           TwinBuild(kwargs, os_a, os_b)

SpecSeed == InitSeed /\ [][NextSeed]_vars

---------------------------------------------------------------------------
(* What the properties read from the state *)

\* the log of the call that last ran (to its end or to its await)
Log ==
    IF pending # NoPending THEN pending.log
    ELSE IF "log" \in DOMAIN last THEN last.log
    ELSE <<>>

\* the keys the caller passed to it
CallerKeys ==
    IF pending # NoPending THEN DOMAIN pending.kwargs
    ELSE IF "kwargs" \in DOMAIN last THEN last.kwargs
    ELSE {}

Resolves == {i \in DOMAIN Log : Log[i].ev = "resolve"}
Sources0 == {i \in DOMAIN Log : Log[i].ev = "source" /\ Log[i].depth = 0}
Constructs0 == {i \in DOMAIN Log : Log[i].ev = "construct" /\ Log[i].depth = 0}
SourceEvents == {i \in DOMAIN Log : Log[i].ev = "source"}

Completed(ops) == pending = NoPending /\ "outcome" \in DOMAIN last
                  /\ last.op \in ops /\ last.outcome \in {"returned", "raised"}

KeysMarked(kind) ==
    {key \in DOMAIN factory.attrs \cap FieldKeys(factory) : factory.attrs[key].kind = kind}

KeyIndex(key) ==
    CHOOSE i \in 1..Len(ModelFields[factory.model]) : ModelFields[factory.model][i].alias = key

---------------------------------------------------------------------------
(* C1 *)

\* the type looked up in the last steps: type_, or outer_type_ when type_ is Any
LookupType(f) == IF f.type_ # "Any" THEN f.type_ ELSE f.outer_type_

NoneSelected(e) ==
    e.allow /\ e.field.optional /\ ~Bit(e.random_before)

\* the first of the eight listed conditions that holds, by number
ListedBranch(e) ==
    IF e.field.const THEN 1
    ELSE IF NoneSelected(e) THEN 2
    ELSE IF e.field.outer_type_ \in EnumTypes THEN 3
    ELSE IF e.field.outer_type_ \in PydanticModels \cup Dataclasses THEN 4
    ELSE IF e.field.outer_type_ \in DOMAIN ConstrainedBase THEN 5
    ELSE IF e.field.sub_fields # <<>> THEN 6
    ELSE IF e.field.outer_type_ = "Literal" THEN 7
    ELSE 8

BranchNumber(branch) ==
    CASE branch = "const" -> 1 [] branch = "none" -> 2 [] branch = "enum" -> 3
      [] branch = "nested" -> 4 [] branch = "constrained" -> 5 [] branch = "complex" -> 6
      [] branch = "literal" -> 7 [] branch = "provider" -> 8 [] OTHER -> 9

\* what branches 1..7 return
ListedResult(e, n) ==
    CASE n = 1 -> e.ok /\ e.val = e.field.default /\ e.draws = 0
      [] n = 2 -> e.ok /\ e.val = NoneVal
      [] n = 3 -> e.ok /\ \E i \in 1..Len(EnumMembers(e.field.outer_type_)) :
                              e.val = EnumMembers(e.field.outer_type_)[i]
      [] n = 4 -> e.ok => (e.val.k = "instance" /\ e.val.model = e.field.outer_type_)
      [] n = 5 -> e.ok => e.val.k = e.field.outer_type_
      [] n = 6 -> e.ok => e.val.k = e.field.outer_type_
      [] n = 7 -> e.ok /\ e.val = e.field.args[1]
      [] OTHER -> TRUE

\* the provider map applied to type t: its handler's value, or ParameterError
ProviderResult(e, t) ==
    IF t \in DOMAIN get_provider_map THEN e.ok /\ e.val.k = t
    ELSE ~e.ok /\ e.err = "ParameterError"

\* C1 as claimed: every get_field_value call takes the lowest-numbered of the
\* eight listed branches whose condition holds and returns what that branch
\* says, the eighth being the provider map applied to the innermost type
\* (the outer type when the innermost one is Any).
C1_EightBranches ==
    \A i \in Resolves :
        /\ BranchNumber(Log[i].branch) = ListedBranch(Log[i])
        /\ ListedResult(Log[i], ListedBranch(Log[i]))
        /\ ListedBranch(Log[i]) = 8 => ProviderResult(Log[i], LookupType(Log[i].field))

\* C1 as amended: every get_field_value call takes the first branch whose
\* condition holds of: const, optional-None selected, enum, nested model or
\* dataclass, constrained type, sub-fields, literal, ignored type (None is
\* returned and the provider map is not consulted), provider map.  The type
\* the last two look at is the innermost type, or the outer type when the
\* innermost one is Any.  A const field draws no random value.
C1_ResolutionOrder ==
    \A i \in Resolves :
        LET e == Log[i]
            n == ListedBranch(e)
        IN  IF n < 8
            THEN BranchNumber(e.branch) = n /\ ListedResult(e, n)
            ELSE IF LookupType(e.field) = "None"
            THEN e.branch = "ignored" /\ e.ok /\ e.val = NoneVal
            ELSE e.branch = "provider" /\ ProviderResult(e, LookupType(e.field))

\* a call that resolved a field of the ignored type, a field whose innermost
\* type is Any through the provider map, and an optional field to None
C1_Witness ==
    /\ \E i \in Resolves : Log[i].branch = "ignored" /\ Log[i].field.optional
    /\ \E i \in Resolves : Log[i].branch = "provider" /\ Log[i].field.type_ = "Any"
    /\ \E i \in Resolves : Log[i].branch = "none"

---------------------------------------------------------------------------
(* C2 *)

\* C2 as claimed: a field's value is the caller's keyword when one is passed;
\* it comes from handle_factory_field only when the factory declares an
\* attribute of that name; and a field with neither comes from get_field_value.
C2_SourcePerField ==
    \A i \in SourceEvents :
        LET e == Log[i]
        IN  /\ (e.via = "kwarg") <=> (e.depth = 0 /\ e.key \in CallerKeys)
            /\ e.via = "handle_factory_field" => e.declared
            /\ (~e.declared /\ e.via # "kwarg") => e.via = "get_field_value"

---------------------------------------------------------------------------
(* C3 *)

MissingRequired == KeysMarked("Require") \ CallerKeys

\* C3 as claimed: a build call on a factory with a Require field that the
\* keywords lack raises MissingBuildKwargError and never calls the model.
C3_RequireRaisesMissing ==
    (Completed({"build"}) /\ MissingRequired # {})
        => /\ last.outcome = "raised"
           /\ last.err = "MissingBuildKwargError"
           /\ Constructs0 = {}

\* the field whose value was being produced when the build ended
FailedAt == Log[CHOOSE i \in Sources0 : \A j \in Sources0 : j <= i].key

\* C3 as amended: such a build call never returns an instance and never
\* calls the model; it raises MissingBuildKwargError unless producing the
\* value of a field that precedes the Require field fails first, and then
\* that field's error is raised.
C3_RequireNeverBuilds ==
    (Completed({"build"}) /\ MissingRequired # {})
        => /\ last.outcome = "raised"
           /\ Constructs0 = {}
           /\ \/ last.err = "MissingBuildKwargError"
              \/ /\ Sources0 # {}
                 /\ \A key \in MissingRequired : KeyIndex(FailedAt) < KeyIndex(key)
                 /\ Log[Len(Log)].ev = "resolve" /\ ~Log[Len(Log)].ok

\* a build that reached a Require field which is not the model's first field
C3_Witness ==
    /\ Completed({"build"})
    /\ \E key \in MissingRequired : KeyIndex(key) > 1
    /\ last.err = "MissingBuildKwargError"
    /\ Sources0 # {}

---------------------------------------------------------------------------
(* C4 *)

\* C4 as claimed: the keywords the model is called with never hold the key
\* of an Ignore field.
C4_IgnoredNeverPassed ==
    \A i \in Constructs0 : Log[i].keys \cap KeysMarked("Ignore") = {}

\* C4 as amended: the keywords the model is called with hold the key of an
\* Ignore field only when the caller passed that key.
C4_IgnoredOnlyFromCaller ==
    \A i \in Constructs0 : Log[i].keys \cap KeysMarked("Ignore") \subseteq CallerKeys

\* the model was called by a factory with an Ignore field the caller left out
C4_Witness ==
    /\ Constructs0 # {}
    /\ KeysMarked("Ignore") \ CallerKeys # {}
    /\ CallerKeys # {}

---------------------------------------------------------------------------
(* C5 *)

\* the factory declares no factory of its own for a field: every nested
\* factory is one derived by create_factory
OnlyDerivedFactories == \A key \in DOMAIN factory.attrs : factory.attrs[key].kind # "Factory"

\* C5 as claimed: with __allow_none_optionals__ False no optional field is
\* resolved to None, in the factory's model or in a nested one.
C5_NoOptionalNone ==
    (~factory.allow_none_optionals /\ OnlyDerivedFactories)
        => \A i \in Resolves :
               (Log[i].field.optional /\ Log[i].ok) => Log[i].val # NoneVal

\* C5 as amended: with __allow_none_optionals__ False get_field_value never
\* takes the optional-None branch and draws no boolean for it, in the factory
\* and in every factory derived by create_factory; it returns None for an
\* optional field only when the field is const with default None or its type
\* is the ignored type None.
C5_NoOptionalNoneBranch ==
    (~factory.allow_none_optionals /\ OnlyDerivedFactories)
        => \A i \in Resolves :
               /\ ~Log[i].allow
               /\ Log[i].branch # "none"
               /\ (Log[i].field.optional /\ Log[i].ok /\ Log[i].val = NoneVal)
                      => \/ Log[i].field.const /\ Log[i].field.default = NoneVal
                         \/ LookupType(Log[i].field) = "None"

\* optional fields of the model and of a nested model were resolved, to
\* something else than None, with the flag off
C5_Witness ==
    /\ ~factory.allow_none_optionals /\ OnlyDerivedFactories
    /\ \E i \in Resolves : Log[i].depth = 0 /\ Log[i].field.optional /\ Log[i].ok
                           /\ Log[i].val # NoneVal /\ Log[i].branch = "nested"
    /\ \E i \in Resolves : Log[i].depth > 0 /\ Log[i].field.optional /\ Log[i].ok
                           /\ Log[i].val # NoneVal /\ ~Log[i].field.const

---------------------------------------------------------------------------
(* C6 *)

SyncCreates == {"create_sync", "create_batch_sync"}
AsyncCreates == {"create_async", "create_batch_async"}

\* C6: a create_sync / create_batch_sync call on a factory without a
\* synchronous strategy, and a create_async / create_batch_async call on one
\* without an asynchronous strategy, raises ConfigurationError having built
\* nothing and saved nothing; the asynchronous ones never reach their await.
C6_NoStrategyNoBuild ==
    /\ (Completed(SyncCreates) /\ factory.sync_persistence = "none")
           => last.outcome = "raised" /\ last.err = "ConfigurationError" /\ last.log = <<>>
    /\ (Completed(AsyncCreates) /\ factory.async_persistence = "none")
           => last.outcome = "raised" /\ last.err = "ConfigurationError" /\ last.log = <<>>
    /\ factory.async_persistence = "none" => pending = NoPending

\* create_batch_sync ended on a factory that has a model and no strategy
C6_Witness ==
    /\ Completed({"create_batch_sync"}) /\ last.size = 2
    /\ factory.sync_persistence = "none" /\ factory.model = "Node"
    /\ last.err = "ConfigurationError"

---------------------------------------------------------------------------
(* C8 *)

\* the get_field_value calls that reach the last step
LastStep == {i \in Resolves : ListedBranch(Log[i]) = 8}

\* C8 as claimed: a field that reaches the last step with a type the provider
\* map does not hold raises ParameterError, and the last step never yields
\* None.
C8_UnknownTypeRaises ==
    \A i \in LastStep :
        /\ LookupType(Log[i].field) \notin DOMAIN get_provider_map
               => ~Log[i].ok /\ Log[i].err = "ParameterError"
        /\ Log[i].ok => Log[i].val # NoneVal

\* C8 as amended: a field that reaches the last step with a type the provider
\* map does not hold raises ParameterError unless the type is an ignored type
\* (is_ignored_type: None), for which None is returned; the last step yields
\* None for no other type.
C8_UnknownTypeRaisesUnlessIgnored ==
    \A i \in LastStep :
        /\ (LookupType(Log[i].field) \notin DOMAIN get_provider_map
            /\ LookupType(Log[i].field) # "None")
               => ~Log[i].ok /\ Log[i].err = "ParameterError"
        /\ (Log[i].ok /\ Log[i].val = NoneVal) => LookupType(Log[i].field) = "None"

\* a build ended by a field of a type without provider
C8_Witness ==
    /\ Completed({"build"}) /\ last.err = "ParameterError"
    /\ \E i \in LastStep : LookupType(Log[i].field) = "complex" /\ ~Log[i].ok

---------------------------------------------------------------------------
(* C9 *)

BatchCreates == {"create_batch_sync", "create_batch_async"}

IsBuilt(e) == e.ev = "construct" /\ e.depth = 0
\* the instances built by the call, in build order
BuiltInstances(log) ==
    LET built == SelectSeq(log, IsBuilt)
    IN  [i \in 1..Len(built) |-> built[i].val]

SaveManys(log) == {i \in DOMAIN log : log[i].ev = "save_many"}
StrategyEvents(log) == {i \in DOMAIN log : log[i].ev \in {"instantiate", "save", "save_many"}}
Builds(log) == {i \in DOMAIN log : log[i].ev \in {"source", "resolve", "construct"}}

\* a completed create_batch_* call: save_many is called once, last, with the
\* size instances in build order, and its result is returned; it is not
\* called when a build failed; its failure is raised as it is
BatchSaved ==
    Completed(BatchCreates) =>
        /\ last.outcome = "returned" =>
               /\ Cardinality(SaveManys(last.log)) = 1
               /\ last.log[Len(last.log)].ev = "save_many"
               /\ last.log[Len(last.log)].data.items = BuiltInstances(last.log)
               /\ Len(BuiltInstances(last.log)) = last.size
               /\ last.val = Saved("save_many", last.log[Len(last.log)].data)
        /\ (last.outcome = "raised" /\ last.err # "PersistenceError")
               => SaveManys(last.log) = {}
        /\ last.err = "PersistenceError"
               => /\ Cardinality(SaveManys(last.log)) = 1
                  /\ last.log[Len(last.log)].ev = "save_many"
                  /\ Len(BuiltInstances(last.log)) = last.size
        /\ last.awaited = IF last.op = "create_batch_async" /\ SaveManys(last.log) # {}
                          THEN <<"save_many">> ELSE <<>>

\* a suspended create_batch_async waits for save_many, all builds done
BatchSuspended ==
    (pending # NoPending /\ pending.op = "create_batch_async") =>
        /\ pending.method = "save_many"
        /\ pending.data.items = BuiltInstances(pending.log)
        /\ Len(pending.data.items) = pending.size

\* C9 as claimed: all builds are complete before the persistence strategy is
\* touched; save_many is then called once with the instances in build order
\* and its result returned; no save_many after a failed build; no retry; the
\* asynchronous variant suspends only at save_many.
C9_BuildsBeforeStrategy ==
    /\ BatchSaved
    /\ BatchSuspended
    /\ (Completed(BatchCreates) \/ (pending # NoPending /\ pending.op = "create_batch_async"))
           => \A i \in StrategyEvents(Log) : \A j \in Builds(Log) : j < i

\* C9 as amended: the handler is obtained first (a strategy configured as a
\* class is instantiated before the first build); all builds are complete
\* before save_many is called; save_many is then called once with the
\* instances in build order and its result returned; no save_many after a
\* failed build; no retry; the asynchronous variant suspends only at save_many.
C9_BuildsBeforeSaveMany ==
    /\ BatchSaved
    /\ BatchSuspended
    /\ (Completed(BatchCreates) \/ (pending # NoPending /\ pending.op = "create_batch_async"))
           => /\ \A i \in SaveManys(Log) : \A j \in Builds(Log) : j < i
              /\ \A i \in DOMAIN Log : Log[i].ev = "instantiate" => i = 1

\* create_batch_sync saved two instances with a strategy configured as a class
C9_Witness ==
    /\ Completed({"create_batch_sync"}) /\ last.size = 2 /\ last.outcome = "returned"
    /\ factory.sync_persistence = "class"
    /\ Len(BuiltInstances(last.log)) = 2

---------------------------------------------------------------------------
(* C10 *)

\* C10 as claimed: a build of a model that refers to itself through an
\* optional field ends by itself for both settings of
\* __allow_none_optionals__: the nesting of build calls stays bounded, so the
\* build never ends at the interpreter's recursion limit.
C10_RecursionEnds ==
    (Completed({"build"}) /\ factory.model = "Node" /\ factory.attrs = NoAttrs)
        => last.err # "RecursionError"

---------------------------------------------------------------------------
(* C7 (SpecSeed) *)

\* C7 as claimed: two runs that seed with the same seed and make the same
\* build calls get the same values.
C7_SameSeedSameValues == twin.out_a = twin.out_b

====
